---- MODULE Spec2Model ----
(***************************************************************************)
(* Flappy Bert API server (src/bot.js, src/db.js): the in-memory game      *)
(* session store, the anti-cheat validator validateScore, the handlers     *)
(* POST /api/session, POST /api/score, the Telegram web_app_data handler   *)
(* and the 5-minute session sweep.                                         *)
(*                                                                         *)
(* Node runs every handler to completion on one thread and better-sqlite3  *)
(* is synchronous, so each handler is one atomic action, taken when the    *)
(* event loop is free; Finish returns to the event loop.  Time is          *)
(* Date.now() in milliseconds.                                             *)
(***************************************************************************)
EXTENDS Integers, Sequences, FiniteSets, TLC

VARIABLES
    now,            \* Date.now(), in ms since process start
    nextSweep,      \* the time at which the sweep timer fires next
    gameSessions,   \* the Map sessionId -> { id, telegramId, startedAt, used }
    nextId,         \* number of the next session id generateSessionId returns
    scores,         \* the rows of the scores table, in insertion order
    tournamentScores, \* the rows of the tournament_scores table, in insertion order
    coins,          \* players.coins: telegram_id -> balance
    archives,       \* the archive directory: week -> content of leaderboard-<week>.csv
    lastArchivedWeek, \* the week checkAutoArchive archived last, or null
    nextArchiveCheck, \* the time at which the auto-archive timer fires next
    accepted,       \* history: sessionId -> number of submissions answered ok
    req,            \* the request or timer event just handled ("none": the server waits)
    res,            \* the response the handler sent to it
    verdict         \* the value validateScore returned in the handler

\* the archive directory and the auto-archive timer
archiveVars == <<archives, lastArchivedWeek, nextArchiveCheck>>

vars == <<now, nextSweep, gameSessions, nextId, scores, tournamentScores, coins,
          archives, lastArchivedWeek, nextArchiveCheck, accepted, req, res, verdict>>

----------------------------------------------------------------------------
(* Bounds of the model *)

MaxSessions == 1        \* sessions issued in one run
MaxRows == 2            \* rows the scores table holds in one run
MaxPeriods == 1         \* sweep periods a run of Spec lasts
MaxSweeps == 8          \* sweep periods a run of SpecLifecycle lasts
MaxPlaySessions == 2    \* sessions issued in one run of SpecSessions
MaxTournamentRows == 1  \* rows the tournament_scores table holds in one run
MaxArchiveChecks == 1   \* auto-archive checks after the weekly reset in one run

----------------------------------------------------------------------------
(* Program constants *)

MAX_ABSOLUTE_SCORE == 500
MIN_GAME_DURATION_MS == 3000
SESSION_RETENTION_MS == 30 * 60 * 1000
SWEEP_INTERVAL_MS == 5 * 60 * 1000
ARCHIVE_CHECK_INTERVAL_MS == 10 * 60 * 1000
ARCHIVE_WINDOW_MS == 30 * 60 * 1000
DAY_MS == 24 * 60 * 60 * 1000

\* JavaScript's null
Null == -2

\* JavaScript's undefined, for a field the request does not carry
Undefined == -1

\* !x for a number-or-undefined x
Falsy(x) == x = Undefined \/ x = 0

\* the value of Map.get for a key that is not in the map
NoSession == [absent |-> TRUE]

----------------------------------------------------------------------------
(* Inputs *)

Players == {1, 2}

\* telegram_id of a request body: a player, or missing
TelegramIds == Players \cup {Undefined}

\* session_id of a request body: missing, or a 128-bit token.  A token in
\* 1..MaxSessions that is not in the store is one never issued (forged) or
\* one already swept.
SessionIds == (1..MaxSessions) \cup {Undefined}

Body(s, l, c, f, d) ==
    [score |-> s, level |-> l, coins_earned |-> c, frames |-> f, duration |-> d]

\* the score claims sent to POST /api/score in Spec: an honest game of 10 s
\* (too much for a game of 3 s), one with a level and a frame count that do
\* not fit, a score above the cap, and a body without score
Bodies ==
    { Body(12, 2, 10, 600, 10000),
      Body(12, 9, 10, 10, 10000),
      Body(501, 1, 0, Undefined, Undefined),
      Body(Undefined, 1, 0, Undefined, Undefined) }

\* the score claims sent in SpecLifecycle
LifecycleBodies ==
    { Body(12, 2, 10, 600, 10000),
      Body(501, 1, 0, Undefined, Undefined) }

\* what the payload of a web_app_data message parses to
WebAppPayloads ==
    { [score |-> 9999, level |-> 1, coinsEarned |-> 0] }

\* const API_SECRET = process.env.API_SECRET || '', in a deployment that sets it
API_SECRET == "secret"

\* a request without the x-api-secret header
NoHeader == "absent"

\* the x-api-secret header of a request: the secret, or none
Headers == {API_SECRET, NoHeader}

\* the tournament seeded at startup, and the :id of a request: the seeded
\* tournament or one that does not exist
SeededTournament == "champions-flapoff-1"
TournamentIds == {SeededTournament, "unknown"}

\* start_time and end_time of the seeded tournament on the clock of the
\* model, for a process started five minutes before the tournament opens
\* and a tournament of five minutes
Tournaments ==
    [id \in {SeededTournament} |->
        [start_time |-> 5 * 60 * 1000, end_time |-> 10 * 60 * 1000]]

\* the score claims sent to the tournament endpoint: a score at the cap, one
\* above it, and a body without score
TournamentBodies ==
    { Body(500, 1, 0, Undefined, Undefined),
      Body(501, 1, 0, Undefined, Undefined),
      Body(Undefined, 1, 0, Undefined, Undefined) }

\* how the database calls of a handler end
DbOutcomes == {"ok", "throws"}

\* the instants, after a firing of the sweep timer, at which the clock is read
Offsets == {3000}

----------------------------------------------------------------------------
(* validateScore and its parts *)

CeilDiv(a, b) == (a + b - 1) \div b

\* mutant of maxScoreForTime: Math.floor in place of Math.ceil
maxScoreForTimeFloor(elapsed) == (elapsed * 12) \div 10000

\* Math.ceil((elapsed / 1000) * 1.2); 1.2 = 12/10, and the double product
\* never crosses an integer for elapsed in whole milliseconds
maxScoreForTime(elapsed) == CeilDiv(elapsed * 12, 10000)

\* mutant of MAX_LEVEL_FOR_SCORE: the allowance of two levels is left out
MAX_LEVEL_FOR_SCORE_NoSlack(s) == s \div 10

\* SCORE_LIMITS.MAX_COINS_FOR_SCORE: Math.ceil(s * (mult || 2)) + 100, for an
\* integer score; validateScore never calls it
MAX_COINS_FOR_SCORE(s, mult) ==
    s * (IF mult = Undefined \/ mult = 0 THEN 2 ELSE mult) + 100

\* SCORE_LIMITS.MAX_LEVEL_FOR_SCORE
MAX_LEVEL_FOR_SCORE(s) == (s \div 10) + 2

\* frames < expectedFrames * 0.3 || frames > expectedFrames * 2, with
\* expectedFrames = (duration / 1000) * 60, in thousandths of a frame
FrameOutOfRange(frames, duration) ==
    \/ frames * 1000 < duration * 18
    \/ frames * 1000 > duration * 120

PushIf(cond, issues, tag) == IF cond THEN Append(issues, tag) ELSE issues

\* mutant of hardFails: level_mismatch is a hard fail too
hardFailsWithLevel ==
    {"invalid_session", "session_reused", "exceeds_cap", "score_exceeds_time", "too_fast",
     "level_mismatch"}

\* mutant of hardFails: exceeds_cap is only a soft issue
hardFailsWithoutCap ==
    {"invalid_session", "session_reused", "score_exceeds_time", "too_fast"}

\* const hardFails = [...]
hardFails ==
    {"invalid_session", "session_reused", "exceeds_cap", "score_exceeds_time", "too_fast"}

SeqRange(q) == {q[i] : i \in 1..Len(q)}

\* mutant of TooFast: the boundary itself counts as too fast
TooFastInclusive(elapsed) == elapsed <= MIN_GAME_DURATION_MS

\* elapsed < SCORE_LIMITS.MIN_GAME_DURATION_MS
TooFast(elapsed) == elapsed < MIN_GAME_DURATION_MS

\* mutant of Flagged: only a hard fail flags the verdict
FlaggedOnHardFail(issues) == \E i \in 1..Len(issues) : issues[i] \in hardFails

\* flagged: issues.length > 0
Flagged(issues) == Len(issues) > 0

\* mutant of MissingSessionVerdict: a claim without session passes
MissingSessionAccepted == [valid |-> TRUE, issues |-> << >>, flagged |-> FALSE]

\* if (!session) return { valid: false, reason: 'invalid_session' }
MissingSessionVerdict == [valid |-> FALSE, reason |-> "invalid_session"]

\* mutant of validateScore: it returns at the first check that fails
validateScoreShortCircuit(session, body, t) ==
    IF session = NoSession THEN MissingSessionVerdict
    ELSE IF session.used THEN [valid |-> FALSE, reason |-> "session_reused"]
    ELSE
      LET elapsed == t - session.startedAt
          first ==
            IF TooFast(elapsed) THEN <<"too_fast">>
            ELSE IF body.score > maxScoreForTime(elapsed) THEN <<"score_exceeds_time">>
            ELSE IF body.score > MAX_ABSOLUTE_SCORE THEN <<"exceeds_cap">>
            ELSE IF body.level > MAX_LEVEL_FOR_SCORE(body.score) THEN <<"level_mismatch">>
            ELSE IF /\ ~Falsy(body.frames) /\ ~Falsy(body.duration)
                    /\ FrameOutOfRange(body.frames, body.duration)
                 THEN <<"frame_mismatch">>
            ELSE << >>
          isHardFail == \E i \in 1..Len(first) : first[i] \in hardFails
      IN [valid |-> ~isHardFail, issues |-> first, flagged |-> Flagged(first)]

validateScore(session, body, t) ==
    IF session = NoSession THEN MissingSessionVerdict
    ELSE IF session.used THEN [valid |-> FALSE, reason |-> "session_reused"]
    ELSE
      LET elapsed == t - session.startedAt
          i1 == PushIf(TooFast(elapsed), <<>>, "too_fast")
          i2 == PushIf(body.score > maxScoreForTime(elapsed), i1, "score_exceeds_time")
          i3 == PushIf(body.score > MAX_ABSOLUTE_SCORE, i2, "exceeds_cap")
          i4 == PushIf(body.level > MAX_LEVEL_FOR_SCORE(body.score), i3, "level_mismatch")
          i5 == PushIf(/\ ~Falsy(body.frames) /\ ~Falsy(body.duration)
                       /\ FrameOutOfRange(body.frames, body.duration),
                       i4, "frame_mismatch")
          isHardFail == \E i \in 1..Len(i5) : i5[i] \in hardFails
      IN [valid |-> ~isHardFail, issues |-> i5, flagged |-> Flagged(i5)]

----------------------------------------------------------------------------
(* The session store *)

\* gameSessions.get(session_id)
SessionGet(session_id) ==
    IF session_id \in DOMAIN gameSessions THEN gameSessions[session_id] ELSE NoSession

\* crypto.randomBytes(16).toString('hex'): a token not issued before
generateSessionId == nextId

Idle == [route |-> "none"]

\* the process has started: no session, the sweep timer set, the tables as
\* db.init() finds them in a fresh database
Init ==
    /\ now = 0
    /\ nextSweep = SWEEP_INTERVAL_MS
    /\ gameSessions = << >>
    /\ nextId = 1
    /\ scores = << >>
    /\ tournamentScores = << >>
    /\ coins = [p \in Players |-> 0]
    /\ archives = << >>
    /\ lastArchivedWeek = Null
    /\ nextArchiveCheck = ARCHIVE_CHECK_INTERVAL_MS
    /\ accepted = << >>
    /\ req = Idle
    /\ res = Idle
    /\ verdict = Idle

\* validateScore applied, on its own, to the session and the claim of req
Validate ==
    /\ req.route = "validateScore"
    /\ verdict = Idle
    /\ verdict' = validateScore(SessionGet(req.session_id), req.body, now)
    /\ UNCHANGED <<now, nextSweep, gameSessions, nextId, scores, tournamentScores, coins,
                   archiveVars, accepted, req, res>>

----------------------------------------------------------------------------
(* Handlers *)

\* x || d
OrElse(x, d) == IF Falsy(x) THEN d ELSE x

\* The clock counts milliseconds from a Monday 00:00 UTC.  A date (the
\* "YYYY-MM-DD" of toISOString().slice(0, 10)) is the number of its day.

\* Date.UTC(year, month, date) of the instant t: midnight of its UTC day
UTCMidnight(t) == (t \div DAY_MS) * DAY_MS

\* getUTCDay(): 0 is Sunday, 1 is Monday
getUTCDay(t) == ((t \div DAY_MS) + 1) % 7

\* mutant of getWeekStart: Sunday is not treated apart
getWeekStartSundayForgotten(t) ==
    LET diff == getUTCDay(t) - 1
    IN (UTCMidnight(t) - diff * DAY_MS) \div DAY_MS

\* db.getWeekStart(date): the date of the Monday of the week of t
getWeekStart(t) ==
    LET day == getUTCDay(t)
        diff == IF day = 0 THEN 6 ELSE day - 1
    IN (UTCMidnight(t) - diff * DAY_MS) \div DAY_MS

\* db.getNextMondayUTC(), called at the instant t: a Date
getNextMondayUTC(t) ==
    LET day == getUTCDay(t)
        daysUntilMon == IF day = 0 THEN 1 ELSE 8 - day
    IN UTCMidnight(t) + daysUntilMon * DAY_MS

\* db.submitScore: INSERT INTO scores
submitScore(telegramId, score, level, coinsEarned) ==
    Append(scores, [telegram_id |-> telegramId, score |-> score,
                    level |-> level, coins_earned |-> coinsEarned,
                    week_start |-> getWeekStart(now)])

\* db.submitScore: if (coinsEarned > 0) addCoins(telegramId, coinsEarned)
addCoins(telegramId, coinsEarned) ==
    IF coinsEarned > 0 /\ telegramId \in DOMAIN coins
    THEN [coins EXCEPT ![telegramId] = @ + coinsEarned]
    ELSE coins

\* mutant of SessionSet: the sessions already in the store become unused again
SessionSetResetsOthers(sessionId, telegram_id) ==
    [id \in DOMAIN gameSessions \cup {sessionId} |->
        IF id = sessionId
        THEN [id |-> sessionId, telegramId |-> telegram_id,
              startedAt |-> now, used |-> FALSE]
        ELSE [gameSessions[id] EXCEPT !.used = FALSE]]

\* mutant of SessionSet: the session is created used
SessionSetUsed(sessionId, telegram_id) ==
    [id \in DOMAIN gameSessions \cup {sessionId} |->
        IF id = sessionId
        THEN [id |-> sessionId, telegramId |-> telegram_id,
              startedAt |-> now, used |-> TRUE]
        ELSE gameSessions[id]]

\* gameSessions.set(sessionId, { id, telegramId, startedAt, used: false })
SessionSet(sessionId, telegram_id) ==
    [id \in DOMAIN gameSessions \cup {sessionId} |->
        IF id = sessionId
        THEN [id |-> sessionId, telegramId |-> telegram_id,
              startedAt |-> now, used |-> FALSE]
        ELSE gameSessions[id]]

\* POST /api/session, in a run that issues at most limit sessions
CreateSessionWithin(limit, telegram_id) ==
    /\ req = Idle
    /\ req' = [route |-> "POST /api/session", telegram_id |-> telegram_id]
    /\ verdict' = Idle
    /\ IF Falsy(telegram_id)
       THEN /\ res' = [status |-> 400, error |-> "telegram_id required"]
            /\ UNCHANGED <<gameSessions, nextId, accepted>>
       ELSE /\ nextId <= limit
            /\ gameSessions' = SessionSet(generateSessionId, telegram_id)
            /\ res' = [status |-> 200, session_id |-> generateSessionId,
                       server_time |-> now]
            /\ nextId' = nextId + 1
            /\ accepted' = [id \in DOMAIN accepted \cup {generateSessionId} |->
                               IF id \in DOMAIN accepted THEN accepted[id] ELSE 0]
    /\ UNCHANGED <<now, nextSweep, scores, tournamentScores, coins, archiveVars>>

\* POST /api/session
CreateSession(telegram_id) == CreateSessionWithin(MaxSessions, telegram_id)

\* mutant of MarkUsed: marking the session restarts its clock
MarkUsedRestarts(session_id) ==
    IF session_id \in DOMAIN gameSessions
    THEN [gameSessions EXCEPT ![session_id].used = TRUE, ![session_id].startedAt = now]
    ELSE gameSessions

\* mutant of MarkUsed: the session is never marked
MarkUsedForgets(session_id) == gameSessions

\* if (session) session.used = true
MarkUsed(session_id) ==
    IF session_id \in DOMAIN gameSessions
    THEN [gameSessions EXCEPT ![session_id].used = TRUE]
    ELSE gameSessions

\* mutant of SessionMismatch: the session's id is compared, not its owner
SessionMismatchById(session, telegram_id) ==
    session # NoSession /\ session.id # telegram_id

\* mutant of SessionMismatch: the owner is not compared
SessionMismatchNever(session, telegram_id) == FALSE

\* session && session.telegramId !== telegram_id
SessionMismatch(session, telegram_id) ==
    session # NoSession /\ session.telegramId # telegram_id

\* the history of answers: one more submission of this session answered ok
CountAccepted(session_id) ==
    IF session_id \in DOMAIN accepted
    THEN [accepted EXCEPT ![session_id] = @ + 1]
    ELSE accepted

\* function authMiddleware: TRUE when it answers 401 Unauthorized instead of
\* calling next()
authMiddleware(x_api_secret) == API_SECRET # "" /\ x_api_secret # API_SECRET

\* mutant of MissingFields: only telegram_id is required
MissingFieldsScoreOptional(telegram_id, score) == Falsy(telegram_id)

\* !telegram_id || score == null
MissingFields(telegram_id, score) == Falsy(telegram_id) \/ score = Undefined

\* mutant of RejectReason: the first issue is sent when there is no reason
RejectReasonFirstIssue(validation) ==
    IF "reason" \in DOMAIN validation THEN validation.reason
    ELSE validation.issues[1]

\* reason: validation.reason; a verdict with issues has no reason field
RejectReason(validation) ==
    IF "reason" \in DOMAIN validation THEN validation.reason ELSE "undefined"

\* POST /api/score; the route is registered without authMiddleware, so the
\* handler runs whatever the x-api-secret header is
PostScore(x_api_secret, telegram_id, session_id, body, dbres) ==
    LET session == SessionGet(session_id)
        validation == validateScore(session, body, now)
    IN
    /\ req = Idle
    /\ req' = [route |-> "POST /api/score", x_api_secret |-> x_api_secret,
               telegram_id |-> telegram_id, session_id |-> session_id, body |-> body]
    /\ IF MissingFields(telegram_id, body.score)
       THEN /\ res' = [status |-> 400, error |-> "telegram_id and score are required"]
            /\ verdict' = Idle
            /\ UNCHANGED <<gameSessions, scores, coins, accepted>>
       ELSE IF SessionMismatch(session, telegram_id)
       THEN /\ res' = [status |-> 403, error |-> "Invalid session"]
            /\ verdict' = Idle
            /\ UNCHANGED <<gameSessions, scores, coins, accepted>>
       ELSE IF ~validation.valid
       THEN /\ verdict' = validation
            /\ res' = [status |-> 403, error |-> "Score rejected",
                       reason |-> RejectReason(validation)]
            /\ UNCHANGED <<gameSessions, scores, coins, accepted>>
       ELSE /\ verdict' = validation
            /\ gameSessions' = MarkUsed(session_id)
            /\ IF dbres = "ok"
               THEN /\ Len(scores) < MaxRows
                    /\ scores' = submitScore(telegram_id, body.score,
                                             OrElse(body.level, 1),
                                             OrElse(body.coins_earned, 0))
                    /\ coins' = addCoins(telegram_id, OrElse(body.coins_earned, 0))
                    /\ res' = [status |-> 200, ok |-> TRUE, flagged |-> validation.flagged]
                    /\ accepted' = CountAccepted(session_id)
               ELSE /\ res' = [status |-> 500, error |-> "Internal error"]
                    /\ UNCHANGED <<scores, coins, accepted>>
    /\ UNCHANGED <<now, nextSweep, nextId, tournamentScores, archiveVars>>

\* bot.on('web_app_data')
WebAppData(userId, data, dbres) ==
    /\ req = Idle
    /\ req' = [route |-> "web_app_data", from |-> userId, data |-> data]
    /\ verdict' = Idle
    /\ IF dbres = "ok"
       THEN /\ Len(scores) < MaxRows
            /\ scores' = submitScore(userId, data.score, data.level, data.coinsEarned)
            /\ coins' = addCoins(userId, data.coinsEarned)
            /\ res' = [route |-> "sendMessage"]
       ELSE /\ UNCHANGED <<scores, coins>>
            /\ res' = Idle
    /\ UNCHANGED <<now, nextSweep, gameSessions, nextId, tournamentScores, archiveVars,
                   accepted>>

\* db.submitTournamentScore: INSERT INTO tournament_scores
submitTournamentScore(tournamentId, telegramId, score, level, coinsEarned) ==
    Append(tournamentScores,
           [tournament_id |-> tournamentId, telegram_id |-> telegramId,
            score |-> score, level |-> level, coins_earned |-> coinsEarned])

\* mutant of TournamentNotActive: the end of the tournament is not checked
TournamentNotActiveBeforeStart(id, t) == t < Tournaments[id].start_time

\* now < start || now > end
TournamentNotActive(id, t) ==
    t < Tournaments[id].start_time \/ t > Tournaments[id].end_time

\* POST /api/tournament/:id/score; the handler reads gameSessions and never
\* writes it; a throw of the database call is answered 500 by express
PostTournamentScore(id, telegram_id, session_id, body, dbres) ==
    LET session == SessionGet(session_id) IN
    /\ req = Idle
    /\ req' = [route |-> "POST /api/tournament/:id/score", id |-> id,
               telegram_id |-> telegram_id, session_id |-> session_id, body |-> body]
    /\ verdict' = Idle
    /\ IF id \notin DOMAIN Tournaments
       THEN /\ res' = [status |-> 404, error |-> "Tournament not found"]
            /\ UNCHANGED tournamentScores
       ELSE IF TournamentNotActive(id, now)
       THEN /\ res' = [status |-> 400, error |-> "Tournament not active"]
            /\ UNCHANGED tournamentScores
       ELSE IF MissingFields(telegram_id, body.score)
       THEN /\ res' = [status |-> 400, error |-> "telegram_id and score required"]
            /\ UNCHANGED tournamentScores
       ELSE IF body.score > MAX_ABSOLUTE_SCORE
       THEN /\ res' = [status |-> 403, error |-> "Score rejected"]
            /\ UNCHANGED tournamentScores
       ELSE IF SessionMismatch(session, telegram_id)
       THEN /\ res' = [status |-> 403, error |-> "Invalid session"]
            /\ UNCHANGED tournamentScores
       ELSE IF dbres = "ok"
       THEN /\ Len(tournamentScores) < MaxTournamentRows
            /\ tournamentScores' =
                  submitTournamentScore(id, telegram_id, body.score,
                                        OrElse(body.level, 1),
                                        OrElse(body.coins_earned, 0))
            /\ res' = [status |-> 200, ok |-> TRUE]
       ELSE /\ res' = [status |-> 500, error |-> "Internal Server Error"]
            /\ UNCHANGED tournamentScores
    /\ UNCHANGED <<now, nextSweep, gameSessions, nextId, scores, coins, archiveVars,
                   accepted>>

\* mutant of SweepDeletes: a session exactly 30 minutes old is swept too
SweepDeletesAtCutoff(sess, t) == sess.startedAt <= t - SESSION_RETENTION_MS

\* mutant of SweepDeletes: nothing is swept
SweepDeletesNever(sess, t) == FALSE

\* mutant of SweepDeletes: only used sessions are swept
SweepDeletesUsedOnly(sess, t) == sess.used /\ sess.startedAt < t - SESSION_RETENTION_MS

\* if (sess.startedAt < cutoff) gameSessions.delete(id), cutoff = t - 30 min
SweepDeletes(sess, t) == sess.startedAt < t - SESSION_RETENTION_MS

\* setInterval(() => { ... }, 5 * 60 * 1000): the session sweep
Sweep ==
    /\ req = Idle
    /\ now = nextSweep
    /\ gameSessions' =
          [id \in {i \in DOMAIN gameSessions : ~SweepDeletes(gameSessions[i], now)} |->
              gameSessions[id]]
    /\ nextSweep' = nextSweep + SWEEP_INTERVAL_MS
    /\ req' = [route |-> "setInterval"]
    /\ res' = Idle
    /\ verdict' = Idle
    /\ UNCHANGED <<now, nextId, scores, tournamentScores, coins, archiveVars, accepted>>

\* the handler has returned and its response is sent: back to the event loop
Finish ==
    /\ req # Idle
    /\ req' = Idle
    /\ res' = Idle
    /\ verdict' = Idle
    /\ UNCHANGED <<now, nextSweep, gameSessions, nextId, scores, tournamentScores, coins,
                   archiveVars, accepted>>

\* the clock advances to t while the server waits
ClockTo(t) ==
    /\ req = Idle
    /\ now < t
    /\ t <= nextSweep
    /\ now' = t
    /\ UNCHANGED <<nextSweep, gameSessions, nextId, scores, tournamentScores, coins,
                   archiveVars, accepted, req, res, verdict>>

\* time passes within the current sweep period
Advance(o) == ClockTo(nextSweep - SWEEP_INTERVAL_MS + o)

\* time passes until the sweep timer is due; it never passes a due timer
AdvanceToTimer(periods) ==
    /\ nextSweep <= periods * SWEEP_INTERVAL_MS
    /\ ClockTo(nextSweep)

Next ==
    \/ \E t \in TelegramIds : CreateSession(t)
    \/ \E t \in TelegramIds, s \in SessionIds, b \in Bodies, d \in DbOutcomes :
          PostScore(NoHeader, t, s, b, d)
    \/ \E u \in Players, p \in WebAppPayloads, d \in DbOutcomes : WebAppData(u, p, d)
    \/ Sweep
    \/ Finish
    \/ \E o \in Offsets : Advance(o)
    \/ AdvanceToTimer(MaxPeriods)

Spec == Init /\ [][Next]_vars

NextLifecycle ==
    \/ \E t \in TelegramIds : CreateSession(t)
    \/ \E t \in TelegramIds, s \in SessionIds, b \in LifecycleBodies, d \in DbOutcomes :
          PostScore(NoHeader, t, s, b, d)
    \/ Sweep
    \/ Finish
    \/ AdvanceToTimer(MaxSweeps)

SpecLifecycle == Init /\ [][NextLifecycle]_vars

----------------------------------------------------------------------------
(* The session store under every operation that reads or writes it *)

\* the score claim sent to the tournament endpoint while the store is watched:
\* the handler reads the store and never writes it, whatever the claim
StoreTournamentBodies == { Body(12, 2, 10, 600, 10000) }

NextStore ==
    \/ \E t \in TelegramIds : CreateSession(t)
    \/ \E t \in TelegramIds, s \in SessionIds, b \in LifecycleBodies, d \in DbOutcomes :
          PostScore(NoHeader, t, s, b, d)
    \/ \E i \in TournamentIds, t \in TelegramIds, s \in SessionIds,
          b \in StoreTournamentBodies, d \in DbOutcomes :
          PostTournamentScore(i, t, s, b, d)
    \/ Sweep
    \/ Finish
    \/ AdvanceToTimer(MaxSweeps)

SpecStore == Init /\ [][NextStore]_vars

----------------------------------------------------------------------------
(* The tournament endpoint, with the sessions it looks up *)

NextTournament ==
    \/ \E t \in TelegramIds : CreateSession(t)
    \/ \E i \in TournamentIds, t \in TelegramIds, s \in SessionIds,
          b \in TournamentBodies, d \in DbOutcomes :
          PostTournamentScore(i, t, s, b, d)
    \/ Sweep
    \/ Finish
    \/ AdvanceToTimer(MaxSweeps)

SpecTournament == Init /\ [][NextTournament]_vars

----------------------------------------------------------------------------
(* The sweep under fair scheduling *)

\* the last instant at which a session can start and still be swept within
\* the MaxSweeps periods of a run
LastStart == MaxSweeps * SWEEP_INTERVAL_MS - SESSION_RETENTION_MS - SWEEP_INTERVAL_MS

\* POST /api/session, while the run is long enough to see the session swept
CreateSessionInTime(telegram_id) ==
    /\ now <= LastStart
    /\ CreateSession(telegram_id)

NextLive ==
    \/ \E t \in TelegramIds : CreateSessionInTime(t)
    \/ \E t \in TelegramIds, s \in SessionIds, b \in LifecycleBodies, d \in DbOutcomes :
          PostScore(NoHeader, t, s, b, d)
    \/ Sweep
    \/ Finish
    \/ AdvanceToTimer(MaxSweeps)

\* every handler returns; the clock keeps advancing and the event loop runs
\* a due timer however many requests arrive in between
SpecLive ==
    /\ Init
    /\ [][NextLive]_vars
    /\ WF_vars(Finish)
    /\ SF_vars(AdvanceToTimer(MaxSweeps))
    /\ SF_vars(Sweep)

----------------------------------------------------------------------------
(* Games played within the first sweep period *)

\* the score claims sent in SpecPlay: an honest game of 10 s, the same game
\* claiming 125 coins, three whose level or frame count or both do not fit,
\* a short game of score 3, a score above the cap, and a body without score
PlayBodies ==
    { Body(12, 2, 10, 600, 10000),
      Body(12, 2, 125, 600, 10000),
      Body(12, 9, 10, 600, 10000),
      Body(12, 2, 10, 10, 10000),
      Body(12, 9, 10, 10, 10000),
      Body(3, 1, 0, Undefined, Undefined),
      Body(501, 1, 0, Undefined, Undefined),
      Body(Undefined, 1, 0, Undefined, Undefined) }

\* the instants at which the clock is read in SpecPlay: a session started at
\* 3000 is 2000 ms old at 5000 and 10000 ms old at 13000
PlayOffsets == {3000, 5000, 13000}

NextPlay ==
    \/ \E t \in TelegramIds : CreateSession(t)
    \/ \E h \in Headers, t \in TelegramIds, s \in SessionIds, b \in PlayBodies,
          d \in DbOutcomes :
          PostScore(h, t, s, b, d)
    \/ Finish
    \/ \E o \in PlayOffsets : Advance(o)

SpecPlay == Init /\ [][NextPlay]_vars

----------------------------------------------------------------------------
(* Several sessions in the store *)

NextSessions ==
    \/ \E t \in TelegramIds : CreateSessionWithin(MaxPlaySessions, t)
    \/ \E t \in Players, s \in 1..MaxPlaySessions, d \in DbOutcomes :
          PostScore(NoHeader, t, s, Body(12, 2, 10, 600, 10000), d)
    \/ Sweep
    \/ Finish
    \/ AdvanceToTimer(MaxPeriods)

SpecSessions == Init /\ [][NextSessions]_vars

----------------------------------------------------------------------------
(* validateScore as a function of the session, the claim and the time *)

\* the times at which validateScore reads the clock
ValidateInstants == {0, 500, 2000, 2999, 3000, 10000, 420000}

ValidateScores == {0, 3, 4, 5, 12, 50, 500, 501}
ValidateLevels == {Undefined, 1, 2, 3, 7, 8}
ValidateFrames ==
    { <<Undefined, Undefined>>, <<600, Undefined>>, <<0, 10000>>, <<179, 10000>>,
      <<180, 10000>>, <<600, 10000>>, <<1200, 10000>>, <<1201, 10000>> }

ValidateBodies ==
    { Body(s, l, 0, f[1], f[2]) :
        s \in ValidateScores, l \in ValidateLevels, f \in ValidateFrames }

\* one session of player 1 in the store, fresh or used, at some later time,
\* and a call validateScore(gameSessions.get(session_id), body) about to run
InitValidate ==
    /\ now \in ValidateInstants
    /\ nextSweep = SWEEP_INTERVAL_MS * ((now \div SWEEP_INTERVAL_MS) + 1)
    /\ \E u \in BOOLEAN :
          gameSessions = [id \in {1} |->
              [id |-> 1, telegramId |-> 1, startedAt |-> 0, used |-> u]]
    /\ nextId = 2
    /\ scores = << >>
    /\ tournamentScores = << >>
    /\ coins = [p \in Players |-> 0]
    /\ archives = << >>
    /\ lastArchivedWeek = Null
    /\ nextArchiveCheck = ARCHIVE_CHECK_INTERVAL_MS
    /\ accepted = [id \in {1} |-> 0]
    /\ \E s \in {1, 2}, b \in ValidateBodies :
          req = [route |-> "validateScore", session_id |-> s, body |-> b]
    /\ res = Idle
    /\ verdict = Idle

NextValidate == Validate

SpecValidate == InitValidate /\ [][NextValidate]_vars

----------------------------------------------------------------------------
(* GET /api/leaderboard as a function of the query and the scores table *)

\* a string is the sequence of its characters
DigitValue ==
    ("0" :> 0) @@ ("1" :> 1) @@ ("2" :> 2) @@ ("3" :> 3) @@ ("4" :> 4) @@
    ("5" :> 5) @@ ("6" :> 6) @@ ("7" :> 7) @@ ("8" :> 8) @@ ("9" :> 9)

\* a number, or NaN
Num(n) == [nan |-> FALSE, n |-> n]
NaN == [nan |-> TRUE, n |-> 0]

\* the value of the longest run of decimal digits of str from position i on,
\* after the digits read so far (acc; seen: one was read)
RECURSIVE ParseDigits(_, _, _, _)
ParseDigits(str, i, acc, seen) ==
    IF i <= Len(str) /\ str[i] \in DOMAIN DigitValue
    THEN ParseDigits(str, i + 1, acc * 10 + DigitValue[str[i]], TRUE)
    ELSE IF seen THEN Num(acc) ELSE NaN

\* a query parameter: not sent, or sent with a text
Absent == [present |-> FALSE, text |-> << >>]
Text(str) == [present |-> TRUE, text |-> str]

\* parseInt(param): an optional sign, then decimal digits up to the first
\* other character; NaN when there is no digit, also for undefined
parseInt(param) ==
    LET str == param.text IN
    IF ~param.present THEN NaN
    ELSE IF Len(str) > 0 /\ str[1] = "-"
    THEN LET v == ParseDigits(str, 2, 0, FALSE)
         IN IF v.nan THEN NaN ELSE Num(0 - v.n)
    ELSE IF Len(str) > 0 /\ str[1] = "+" THEN ParseDigits(str, 2, 0, FALSE)
    ELSE ParseDigits(str, 1, 0, FALSE)

\* Math.min(parseInt(req.query.limit) || 20, 100)
LeaderboardLimit(query) ==
    LET v == parseInt(query)
        n == IF v.nan \/ v.n = 0 THEN 20 ELSE v.n
    IN IF n < 100 THEN n ELSE 100

\* the players with a row of the week w
WeekPlayers(w) == {scores[i].telegram_id : i \in {j \in 1..Len(scores) : scores[j].week_start = w}}

\* SELECT ... MAX(s.score), COUNT(s.id) ... GROUP BY s.telegram_id: the
\* entry of player p for the week w
WeekEntry(p, w) ==
    LET rows == {i \in 1..Len(scores) :
                    scores[i].telegram_id = p /\ scores[i].week_start = w}
        best == CHOOSE i \in rows : \A j \in rows : scores[j].score <= scores[i].score
    IN [telegram_id |-> p, best_score |-> scores[best].score,
        games_played |-> Cardinality(rows)]

\* ORDER BY best_score DESC
RECURSIVE OrderByBest(_)
OrderByBest(entries) ==
    IF entries = {} THEN << >>
    ELSE LET top == CHOOSE e \in entries :
                       \A f \in entries : f.best_score <= e.best_score
         IN <<top>> \o OrderByBest(entries \ {top})

\* LIMIT ?: SQLite returns every row when the limit is negative
SqlLimit(rows, limit) ==
    IF limit < 0 \/ limit >= Len(rows) THEN rows ELSE SubSeq(rows, 1, limit)

\* db.getWeeklyLeaderboard(limit)
getWeeklyLeaderboard(limit) ==
    LET w == getWeekStart(now)
    IN SqlLimit(OrderByBest({WeekEntry(p, w) : p \in WeekPlayers(w)}), limit)

\* req.query.limit: absent, "", "abc", "12a", "0", "-1", "-5", "1", "20",
\* "50", "100", "101", "1000"
LimitQueries ==
    {Absent} \cup
    { Text(str) : str \in
        { << >>, <<"a", "b", "c">>, <<"1", "2", "a">>, <<"0">>,
          <<"-", "1">>, <<"-", "5">>, <<"1">>, <<"2", "0">>, <<"5", "0">>,
          <<"1", "0", "0">>, <<"1", "0", "1">>, <<"1", "0", "0", "0">> } }

\* the number of players with a score this week
LeaderboardSizes == {0, 1, 19, 20, 21, 50, 100, 101}

\* a week in which n players have one score each, and a GET /api/leaderboard
\* about to be handled
InitLeaderboard ==
    /\ now = 0
    /\ nextSweep = SWEEP_INTERVAL_MS
    /\ gameSessions = << >>
    /\ nextId = 1
    /\ \E n \in LeaderboardSizes :
          scores = [i \in 1..n |->
                      [telegram_id |-> i, score |-> i, level |-> 1,
                       coins_earned |-> 0, week_start |-> 0]]
    /\ tournamentScores = << >>
    /\ coins = [p \in Players |-> 0]
    /\ archives = << >>
    /\ lastArchivedWeek = Null
    /\ nextArchiveCheck = ARCHIVE_CHECK_INTERVAL_MS
    /\ accepted = << >>
    /\ \E q \in LimitQueries : req = [route |-> "GET /api/leaderboard", limit |-> q]
    /\ res = Idle
    /\ verdict = Idle

\* GET /api/leaderboard
GetLeaderboard ==
    /\ req.route = "GET /api/leaderboard"
    /\ res = Idle
    /\ res' = [status |-> 200, week |-> getWeekStart(now),
               limit |-> LeaderboardLimit(req.limit),
               entries |-> getWeeklyLeaderboard(LeaderboardLimit(req.limit))]
    /\ UNCHANGED <<now, nextSweep, gameSessions, nextId, scores, tournamentScores, coins,
                   archiveVars, accepted, req, verdict>>

NextLeaderboard == GetLeaderboard

SpecLeaderboard == InitLeaderboard /\ [][NextLeaderboard]_vars

----------------------------------------------------------------------------
(* The weekly CSV archive *)

\* SUM(s.coins_earned) over the rows numbered in rows
RECURSIVE SumCoins(_)
SumCoins(rows) ==
    IF rows = {} THEN 0
    ELSE LET i == CHOOSE j \in rows : TRUE
         IN scores[i].coins_earned + SumCoins(rows \ {i})

\* the line of the CSV for the entry e at rank k
CsvRow(e, k) ==
    LET rows == {i \in 1..Len(scores) :
                    scores[i].telegram_id = e.telegram_id
                    /\ scores[i].week_start = e.week_start}
    IN [rank |-> k, telegram_id |-> e.telegram_id, best_score |-> e.best_score,
        games_played |-> e.games_played, total_coins |-> SumCoins(rows)]

\* the CSV of the week w: the entries by best score, one line each
WeekCsv(w) ==
    LET entries == OrderByBest({ [WeekEntry(p, w) EXCEPT !.telegram_id = p] @@
                                 [week_start |-> w] : p \in WeekPlayers(w) })
    IN [k \in 1..Len(entries) |-> CsvRow(entries[k], k)]

\* mutant of archiveWeek: an archive that exists is written again
archiveWeekOverwrites(weekStart) ==
    LET week == IF weekStart = Undefined THEN getWeekStart(now) ELSE weekStart
        csv == WeekCsv(week)
    IN IF Len(csv) = 0
       THEN [archives |-> archives, result |-> [kind |-> "null"]]
       ELSE [archives |-> [w \in DOMAIN archives \cup {week} |->
                              IF w = week THEN csv ELSE archives[w]],
             result |-> [kind |-> "written", week |-> week, playerCount |-> Len(csv)]]

\* db.archiveWeek(weekStart): the archive directory after the call, and the
\* value returned
archiveWeek(weekStart) ==
    LET week == IF weekStart = Undefined THEN getWeekStart(now) ELSE weekStart
        csv == WeekCsv(week)
    IN IF week \in DOMAIN archives
       THEN [archives |-> archives,
             result |-> [kind |-> "alreadyExists", week |-> week]]
       ELSE IF Len(csv) = 0
       THEN [archives |-> archives, result |-> [kind |-> "null"]]
       ELSE [archives |-> [w \in DOMAIN archives \cup {week} |->
                              IF w = week THEN csv ELSE archives[w]],
             result |-> [kind |-> "written", week |-> week, playerCount |-> Len(csv)]]

\* setInterval(checkAutoArchive, 10 * 60 * 1000)
CheckAutoArchive ==
    LET msUntilReset == getNextMondayUTC(now) - now
        currentWeek == getWeekStart(now)
        a == archiveWeek(currentWeek)
    IN
    /\ req = Idle
    /\ now = nextArchiveCheck
    /\ req' = [route |-> "checkAutoArchive"]
    /\ verdict' = Idle
    /\ nextArchiveCheck' = nextArchiveCheck + ARCHIVE_CHECK_INTERVAL_MS
    /\ IF /\ msUntilReset <= ARCHIVE_WINDOW_MS
          /\ msUntilReset > 0
          /\ lastArchivedWeek # currentWeek
       THEN /\ archives' = a.archives
            /\ lastArchivedWeek' =
                  IF a.result.kind # "null" THEN currentWeek ELSE lastArchivedWeek
            /\ res' = [attempted |-> TRUE, result |-> a.result]
       ELSE /\ UNCHANGED <<archives, lastArchivedWeek>>
            /\ res' = [attempted |-> FALSE]
    /\ UNCHANGED <<now, nextSweep, gameSessions, nextId, scores, tournamentScores, coins,
                   accepted>>

\* POST /api/archive-now, behind authMiddleware
ArchiveNow(x_api_secret) ==
    LET a == archiveWeek(Undefined) IN
    /\ req = Idle
    /\ req' = [route |-> "POST /api/archive-now", x_api_secret |-> x_api_secret]
    /\ verdict' = Idle
    /\ IF authMiddleware(x_api_secret)
       THEN /\ res' = [status |-> 401, error |-> "Unauthorized"]
            /\ UNCHANGED archives
       ELSE /\ archives' = a.archives
            /\ res' = [status |-> 200, ok |-> a.result.kind # "null", result |-> a.result]
    /\ UNCHANGED <<now, nextSweep, gameSessions, nextId, scores, tournamentScores, coins,
                   lastArchivedWeek, nextArchiveCheck, accepted>>

\* the clock advances to the next auto-archive check while the server waits
AdvanceToArchiveCheck ==
    /\ req = Idle
    /\ now < nextArchiveCheck
    /\ nextArchiveCheck <= 7 * DAY_MS + MaxArchiveChecks * ARCHIVE_CHECK_INTERVAL_MS
    /\ now' = nextArchiveCheck
    /\ UNCHANGED <<nextSweep, gameSessions, nextId, scores, tournamentScores, coins,
                   archives, lastArchivedWeek, nextArchiveCheck, accepted, req, res,
                   verdict>>

\* the process has started 40 or 25 minutes before a Monday 00:00 UTC with an
\* empty database and an empty archive directory; the checkAutoArchive() of
\* the startup found no score to archive
InitArchive ==
    /\ now \in {7 * DAY_MS - 40 * 60 * 1000, 7 * DAY_MS - 25 * 60 * 1000}
    /\ nextSweep = now + SWEEP_INTERVAL_MS
    /\ gameSessions = << >>
    /\ nextId = 1
    /\ scores = << >>
    /\ tournamentScores = << >>
    /\ coins = [p \in Players |-> 0]
    /\ archives = << >>
    /\ lastArchivedWeek = Null
    /\ nextArchiveCheck = now + ARCHIVE_CHECK_INTERVAL_MS
    /\ accepted = << >>
    /\ req = Idle
    /\ res = Idle
    /\ verdict = Idle

NextArchive ==
    \/ \E u \in Players, p \in WebAppPayloads, d \in DbOutcomes : WebAppData(u, p, d)
    \/ CheckAutoArchive
    \/ \E h \in Headers : ArchiveNow(h)
    \/ Finish
    \/ AdvanceToArchiveCheck

SpecArchive == InitArchive /\ [][NextArchive]_vars

----------------------------------------------------------------------------
(* The week arithmetic as a function of the instant *)

\* the instants at which the week is asked for: the first and the last
\* millisecond, one past midnight and noon of fifteen consecutive days
WeekInstants ==
    { d * DAY_MS + o : d \in 0..14, o \in {0, 1, 12 * 60 * 60 * 1000, DAY_MS - 1} }

\* the process is up at some instant and a caller is about to ask for the week
InitWeek ==
    /\ now \in WeekInstants
    /\ nextSweep = SWEEP_INTERVAL_MS * ((now \div SWEEP_INTERVAL_MS) + 1)
    /\ gameSessions = << >>
    /\ nextId = 1
    /\ scores = << >>
    /\ tournamentScores = << >>
    /\ coins = [p \in Players |-> 0]
    /\ archives = << >>
    /\ lastArchivedWeek = Null
    /\ nextArchiveCheck = ARCHIVE_CHECK_INTERVAL_MS * ((now \div ARCHIVE_CHECK_INTERVAL_MS) + 1)
    /\ accepted = << >>
    /\ req = [route |-> "getWeekStart"]
    /\ res = Idle
    /\ verdict = Idle

\* db.getWeekStart() and db.getNextMondayUTC() called at the instant now
WeekQuery ==
    /\ req.route = "getWeekStart"
    /\ res = Idle
    /\ res' = [weekStart |-> getWeekStart(now), nextMonday |-> getNextMondayUTC(now)]
    /\ UNCHANGED <<now, nextSweep, gameSessions, nextId, scores, tournamentScores, coins,
                   archiveVars, accepted, req, verdict>>

NextWeek == WeekQuery

SpecWeek == InitWeek /\ [][NextWeek]_vars

----------------------------------------------------------------------------
(* Properties of validateScore, under SpecValidate *)

\* validateScore has returned for a session that is in the store and unused
ValidatedLive ==
    /\ req.route = "validateScore"
    /\ verdict # Idle
    /\ req.session_id \in DOMAIN gameSessions
    /\ ~gameSessions[req.session_id].used

\* now - session.startedAt of the call in req
ReqElapsed == now - gameSessions[req.session_id].startedAt

VerdictIssues == SeqRange(verdict.issues)

\* C8: for a live unused session the verdict carries too_fast exactly when
\* elapsed = now - startedAt is below 3000 ms; at 2999 ms it does, at 3000 ms
\* it does not.
C8_TooFastBoundary ==
    ValidatedLive =>
        /\ ("too_fast" \in VerdictIssues) <=> (ReqElapsed < 3000)
        /\ ReqElapsed = 2999 => "too_fast" \in VerdictIssues
        /\ ReqElapsed = 3000 => "too_fast" \notin VerdictIssues

C8_Witness ==
    /\ ValidatedLive
    /\ ReqElapsed = 2999
    /\ "too_fast" \in VerdictIssues

\* C9 as stated: with elapsed = 2000 ms a claim of score 3 is accepted and a
\* claim of score 4 yields score_exceeds_time.
C9_Original ==
    (ValidatedLive /\ ReqElapsed = 2000) =>
        /\ req.body.score = 3 => verdict.valid
        /\ req.body.score = 4 => "score_exceeds_time" \in VerdictIssues

\* C9 amended: with elapsed = 2000 ms a claim of score 3 does not yield
\* score_exceeds_time (3 <= ceil(2.4) = 3) and a claim of score 4 does; both
\* are rejected all the same, because 2000 ms < 3000 ms yields too_fast.
C9_RateBoundary ==
    (ValidatedLive /\ ReqElapsed = 2000) =>
        /\ req.body.score = 3 => "score_exceeds_time" \notin VerdictIssues
        /\ req.body.score = 4 => "score_exceeds_time" \in VerdictIssues
        /\ req.body.score \in {3, 4} =>
              ("too_fast" \in VerdictIssues /\ ~verdict.valid)

C9_Witness ==
    /\ ValidatedLive
    /\ ReqElapsed = 2000
    /\ req.body.score = 3
    /\ "score_exceeds_time" \notin VerdictIssues
    /\ ~verdict.valid

IssueTags ==
    {"too_fast", "score_exceeds_time", "exceeds_cap", "level_mismatch", "frame_mismatch"}

\* the condition of each check, on the claim b after e ms
IssueCondition(tag, b, e) ==
    CASE tag = "too_fast" -> e < 3000
      [] tag = "score_exceeds_time" -> b.score > maxScoreForTime(e)
      [] tag = "exceeds_cap" -> b.score > 500
      [] tag = "level_mismatch" -> b.level > (b.score \div 10) + 2
      [] tag = "frame_mismatch" ->
            /\ b.frames \notin {Undefined, 0}
            /\ b.duration \notin {Undefined, 0}
            /\ FrameOutOfRange(b.frames, b.duration)

\* C10: for a live unused session validateScore evaluates every check: the
\* issues it returns are exactly the tags whose condition holds, each once;
\* 500 ms after the start a claim of score 50 carries too_fast and
\* score_exceeds_time and is rejected.
C10_AllChecksEvaluated ==
    ValidatedLive =>
        /\ VerdictIssues = {tag \in IssueTags : IssueCondition(tag, req.body, ReqElapsed)}
        /\ Len(verdict.issues) = Cardinality(VerdictIssues)
        /\ (ReqElapsed = 500 /\ req.body.score = 50) =>
              /\ {"too_fast", "score_exceeds_time"} \subseteq VerdictIssues
              /\ ~verdict.valid

C10_Witness ==
    /\ ValidatedLive
    /\ ReqElapsed = 500
    /\ req.body.score = 50
    /\ {"too_fast", "score_exceeds_time"} \subseteq VerdictIssues
    /\ ~verdict.valid

----------------------------------------------------------------------------
(* Properties of the handlers, under Spec and SpecLifecycle *)

\* this step handles a POST /api/score
Submits == req'.route = "POST /api/score"

\* the session this step's request names is in the store before the step
NamesSession == req'.session_id \in DOMAIN gameSessions

NamedSession == gameSessions[req'.session_id]

\* this step's request carries telegram_id and score
WellFormed == req'.telegram_id \notin {Undefined, 0} /\ req'.body.score # Undefined

\* this step answers 403 'Score rejected' with the reason r
RejectedWith(r) ==
    /\ res'.status = 403
    /\ res'.error = "Score rejected"
    /\ res'.reason = r

\* this step answers with a client error and writes no score
RejectedNothingPersisted ==
    /\ res'.status \in {400, 403}
    /\ scores' = scores
    /\ accepted' = accepted

\* a submission naming the session of this step's request was answered ok before
AcceptedBefore ==
    /\ req'.session_id \in DOMAIN accepted
    /\ accepted[req'.session_id] >= 1

\* C1 as stated: of the requests naming one session id at most one is
\* accepted and persisted, and every request after the accepted one is
\* rejected with session_reused and persists nothing.  Stated here of the
\* requests that carry telegram_id and score only.
C1_Original ==
    [][ /\ \A id \in DOMAIN accepted' : accepted'[id] <= 1
        /\ (Submits /\ AcceptedBefore /\ WellFormed) =>
              (RejectedWith("session_reused") /\ RejectedNothingPersisted) ]_vars

\* C1 amended: at most one request per session id is accepted and persisted;
\* every request after the accepted one is rejected and persists nothing:
\* with 400 when telegram_id or score is missing, else with 'Invalid session'
\* when telegram_id is not the owner's, else with session_reused while the
\* session is in the store and with invalid_session once it was swept.
C1_AtMostOnce ==
    [][ /\ \A id \in DOMAIN accepted' : accepted'[id] <= 1
        /\ (Submits /\ AcceptedBefore) =>
              /\ RejectedNothingPersisted
              /\ gameSessions' = gameSessions
              /\ IF ~WellFormed THEN res'.status = 400
                 ELSE IF ~NamesSession THEN RejectedWith("invalid_session")
                 ELSE IF NamedSession.telegramId # req'.telegram_id
                   THEN res'.status = 403 /\ res'.error = "Invalid session"
                 ELSE RejectedWith("session_reused") ]_vars

\* the owner replays the request that was accepted, and is rejected
C1_Witness ==
    /\ req.route = "POST /api/score"
    /\ req.session_id \in DOMAIN gameSessions
    /\ accepted[req.session_id] = 1
    /\ gameSessions[req.session_id].telegramId = req.telegram_id
    /\ Len(scores) = 1
    /\ scores[1].score = req.body.score
    /\ res = [status |-> 403, error |-> "Score rejected", reason |-> "session_reused"]

\* validateScore returned a verdict with issues, one of them a hard fail
HardRejected(v) == "issues" \in DOMAIN v /\ ~v.valid

\* C2 as stated: after a submission by the owner of a live unused session is
\* hard-rejected (too_fast, score_exceeds_time or exceeds_cap) the session is
\* marked used.
C2_ConsumedOnHardReject ==
    [][ ( /\ Submits
          /\ NamesSession
          /\ ~NamedSession.used
          /\ NamedSession.telegramId = req'.telegram_id
          /\ HardRejected(verdict') ) =>
            gameSessions'[req'.session_id].used ]_vars

\* C3: a POST /api/score whose telegram_id differs from the owner of the
\* session it names is rejected and persists no score, whatever it claims.
C3_OwnerOnly ==
    [][ ( /\ Submits
          /\ NamesSession
          /\ NamedSession.telegramId # req'.telegram_id ) =>
            RejectedNothingPersisted ]_vars

\* another player submits a plausible score on the owner's unused session
C3_Witness ==
    /\ req.route = "POST /api/score"
    /\ req.session_id \in DOMAIN gameSessions
    /\ req.telegram_id \in Players
    /\ gameSessions[req.session_id].telegramId # req.telegram_id
    /\ ~gameSessions[req.session_id].used
    /\ validateScore(gameSessions[req.session_id], req.body, now).valid
    /\ res = [status |-> 403, error |-> "Invalid session"]

\* C4 as stated: every row written to scores was first accepted by
\* validateScore against a live unused session owned by the row's player,
\* on every path that writes one.
C4_PersistOnlyAccepted ==
    [][ Len(scores') > Len(scores) =>
          /\ "valid" \in DOMAIN verdict'
          /\ verdict'.valid
          /\ \E s \in DOMAIN gameSessions :
                /\ ~gameSessions[s].used
                /\ gameSessions[s].telegramId = scores'[Len(scores')].telegram_id
                /\ gameSessions'[s].used ]_vars

\* C5: a POST /api/score claiming a score above 500 is rejected and not
\* persisted, at every elapsed time and in every session state.
C5_CapAlwaysRejects ==
    [][ (Submits /\ req'.body.score > 500) => RejectedNothingPersisted ]_vars

\* the owner's claim above the cap, late enough to pass the rate check
C5_Witness ==
    /\ req.route = "POST /api/score"
    /\ req.body.score > 500
    /\ "issues" \in DOMAIN verdict
    /\ verdict.issues = <<"exceeds_cap">>
    /\ res.status = 403
    /\ Len(scores) = 0

\* C6 as stated: a session created at T is in no lookup at a time >= T + R,
\* R = 30 minutes, the sweep running every 5 minutes.
C6_Original ==
    \A id \in DOMAIN gameSessions : now < gameSessions[id].startedAt + 1800000

\* C6 amended: a session created at T is in no lookup later than
\* T + R + 5 minutes; the lookups up to then, the one at T + R among them,
\* can still find it, because the sweep runs every 5 minutes and keeps a
\* session that is exactly R old.
C6_AbsentAfterSweep ==
    \A id \in DOMAIN gameSessions :
        now <= gameSessions[id].startedAt + 1800000 + 300000

\* the sweep has just removed a session no submission was accepted for
C6_Witness ==
    /\ req.route = "setInterval"
    /\ \E id \in DOMAIN accepted : id \notin DOMAIN gameSessions /\ accepted[id] = 0
    /\ scores = << >>

\* the answer to a claim whose session_id names no session
InvalidSessionAnswer ==
    /\ RejectedWith("invalid_session")
    /\ scores' = scores
    /\ accepted' = accepted
    /\ gameSessions' = gameSessions

\* C7 as stated: a POST /api/score whose session_id is missing or names no
\* session in the store is rejected with invalid_session, persists nothing
\* and leaves the store unchanged.
C7_Original ==
    [][ (Submits /\ ~NamesSession) => InvalidSessionAnswer ]_vars

\* C7 amended: such a request that carries telegram_id and score is rejected
\* with invalid_session; one that lacks either is rejected with 400 before
\* the lookup; both persist nothing and leave the store unchanged.
C7_InvalidSession ==
    [][ (Submits /\ ~NamesSession) =>
          IF WellFormed THEN InvalidSessionAnswer
          ELSE /\ res'.status = 400
               /\ scores' = scores
               /\ accepted' = accepted
               /\ gameSessions' = gameSessions ]_vars

\* a plausible claim by a player, with a session_id that names no session
C7_Witness ==
    /\ req.route = "POST /api/score"
    /\ req.telegram_id \in Players
    /\ req.body.score = 12
    /\ req.session_id \notin DOMAIN gameSessions
    /\ res = [status |-> 403, error |-> "Score rejected", reason |-> "invalid_session"]
    /\ verdict = MissingSessionVerdict

----------------------------------------------------------------------------
(* Properties of a game, under SpecPlay and SpecSessions *)

\* this step's POST /api/score names a session in the store that is unused
\* and owned by the telegram_id of the request
OwnerSubmitsLive ==
    /\ Submits
    /\ NamesSession
    /\ ~NamedSession.used
    /\ NamedSession.telegramId = req'.telegram_id

\* the row db.submitScore writes for this step's request
RequestRow ==
    [telegram_id |-> req'.telegram_id, score |-> req'.body.score,
     level |-> OrElse(req'.body.level, 1),
     coins_earned |-> OrElse(req'.body.coins_earned, 0),
     week_start |-> getWeekStart(now)]

\* this step answers ok with the flagged bit f, writes the request's row and
\* marks the session used; or the database call threw and it answers 500
AcceptedWithFlag(f) ==
    /\ gameSessions'[req'.session_id].used
    /\ res'.status \in {200, 500}
    /\ res'.status = 200 =>
          /\ res' = [status |-> 200, ok |-> TRUE, flagged |-> f]
          /\ scores' = Append(scores, RequestRow)
          /\ accepted'[req'.session_id] = accepted[req'.session_id] + 1
    /\ res'.status = 500 => scores' = scores

\* C11: the owner's submission 10000 ms after the session started, with
\* score 12, level 2, frames 600 and duration 10000, passes every check (the
\* verdict is valid and has no issue); it is answered ok with flagged = false
\* and its row is written, unless the database call throws.
C11_HonestAccepted ==
    [][ ( /\ OwnerSubmitsLive
          /\ now - NamedSession.startedAt = 10000
          /\ req'.body.score = 12 /\ req'.body.level = 2
          /\ req'.body.frames = 600 /\ req'.body.duration = 10000 ) =>
            /\ verdict' = [valid |-> TRUE, issues |-> << >>, flagged |-> FALSE]
            /\ AcceptedWithFlag(FALSE) ]_vars

C11_Witness ==
    /\ req.route = "POST /api/score"
    /\ req.session_id \in DOMAIN gameSessions
    /\ now - gameSessions[req.session_id].startedAt = 10000
    /\ req.body = Body(12, 2, 10, 600, 10000)
    /\ gameSessions[req.session_id].used
    /\ res = [status |-> 200, ok |-> TRUE, flagged |-> FALSE]
    /\ scores = <<[telegram_id |-> req.telegram_id, score |-> 12, level |-> 2,
                  coins_earned |-> 10, week_start |-> 0]>>

SoftTags == {"level_mismatch", "frame_mismatch"}

\* validateScore returned a verdict whose issues are soft ones, at least one
SoftOnly(v) ==
    /\ "issues" \in DOMAIN v
    /\ SeqRange(v.issues) # {}
    /\ SeqRange(v.issues) \subseteq SoftTags

\* C12: the owner's submission on a live unused session whose only issues
\* are level_mismatch and/or frame_mismatch is accepted: the session is
\* marked used, and it is answered ok with flagged = true and its row is
\* written, unless the database call throws.
C12_SoftAccepted ==
    [][ (OwnerSubmitsLive /\ SoftOnly(verdict')) =>
            /\ verdict'.valid
            /\ AcceptedWithFlag(TRUE) ]_vars

C12_Witness ==
    /\ req.route = "POST /api/score"
    /\ "issues" \in DOMAIN verdict
    /\ verdict.issues = <<"level_mismatch", "frame_mismatch">>
    /\ gameSessions[req.session_id].used
    /\ res = [status |-> 200, ok |-> TRUE, flagged |-> TRUE]
    /\ Len(scores) = 1
    /\ scores[1].score = req.body.score

\* validateScore has returned in this state
Validated == req.route = "validateScore" /\ verdict # Idle

C14_MalformedRejectedFirst ==
    [][ (Submits /\ ~WellFormed) =>
            /\ res' = [status |-> 400, error |-> "telegram_id and score are required"]
            /\ verdict' = Idle
            /\ gameSessions' = gameSessions
            /\ scores' = scores
            /\ accepted' = accepted ]_vars

\* the owner of a live unused session, old enough, sends a body without score
C14_Witness ==
    /\ req.route = "POST /api/score"
    /\ req.body.score = Undefined
    /\ req.session_id \in DOMAIN gameSessions
    /\ gameSessions[req.session_id].telegramId = req.telegram_id
    /\ ~gameSessions[req.session_id].used
    /\ now - gameSessions[req.session_id].startedAt >= 10000
    /\ res.status = 400
    /\ verdict = Idle
    /\ scores = << >>

\* C15: POST /api/session with a telegram_id adds one session, under an id
\* not in the store, with that owner, startedAt = now and used = false,
\* answers with its id and leaves the sessions already there as they were;
\* without telegram_id it answers 400 and the store is unchanged.
C15_CreateAddsOne ==
    [][ req'.route = "POST /api/session" =>
          IF req'.telegram_id \in {Undefined, 0}
          THEN res'.status = 400 /\ gameSessions' = gameSessions
          ELSE /\ res'.status = 200
               /\ res'.session_id \notin DOMAIN gameSessions
               /\ DOMAIN gameSessions' = DOMAIN gameSessions \cup {res'.session_id}
               /\ gameSessions'[res'.session_id] =
                     [id |-> res'.session_id, telegramId |-> req'.telegram_id,
                      startedAt |-> now, used |-> FALSE]
               /\ \A id \in DOMAIN gameSessions : gameSessions'[id] = gameSessions[id]
      ]_vars

\* a second session was just created next to a used one
C15_Witness ==
    /\ req.route = "POST /api/session"
    /\ res.status = 200
    /\ Cardinality(DOMAIN gameSessions) = 2
    /\ ~gameSessions[res.session_id].used
    /\ gameSessions[res.session_id].startedAt = now
    /\ \E id \in DOMAIN gameSessions : id # res.session_id /\ gameSessions[id].used

\* C16: the answer to a submission rejected for too_fast, score_exceeds_time
\* or exceeds_cap is the same for all of them: 403 'Score rejected' with no
\* reason (the reason field is undefined, so the JSON body has none) and no
\* issue tag.
C16_GenericRejection ==
    [][ (Submits /\ HardRejected(verdict')) =>
            res' = [status |-> 403, error |-> "Score rejected", reason |-> "undefined"]
      ]_vars

\* a game of 2000 ms rejected for too_fast alone
C16_Witness ==
    /\ req.route = "POST /api/score"
    /\ "issues" \in DOMAIN verdict
    /\ verdict.issues = <<"too_fast">>
    /\ res = [status |-> 403, error |-> "Score rejected", reason |-> "undefined"]
    /\ scores = << >>

\* C17 as stated: with API_SECRET set, a POST /api/score whose x-api-secret
\* header is not the secret is answered 401, writes no row and consumes no
\* session.
C17_SecretRequired ==
    [][ (Submits /\ authMiddleware(req'.x_api_secret)) =>
            /\ res'.status = 401
            /\ scores' = scores
            /\ gameSessions' = gameSessions ]_vars

----------------------------------------------------------------------------
(* Properties of the store, under SpecLifecycle, SpecStore and SpecLive *)

\* C18: a run of the sweep at time now leaves in the store exactly the
\* sessions with now - startedAt <= 30 minutes, used or not, each with the
\* fields it had.
C18_SweepRemovesExactlyOld ==
    [][ req'.route = "setInterval" =>
          /\ DOMAIN gameSessions' =
                {id \in DOMAIN gameSessions : now - gameSessions[id].startedAt <= 1800000}
          /\ \A id \in DOMAIN gameSessions' : gameSessions'[id] = gameSessions[id] ]_vars

\* the sweep has just removed a session a submission was accepted for
C18_Witness ==
    /\ req.route = "setInterval"
    /\ gameSessions = << >>
    /\ \E id \in DOMAIN accepted : accepted[id] = 1
    /\ Len(scores) = 1

\* C19: under fair scheduling every session that is in the store is
\* eventually out of it, whether a score was submitted for it or not.
C19_EventuallyRemoved ==
    \A id \in 1..MaxSessions :
        (id \in DOMAIN gameSessions) ~> (id \notin DOMAIN gameSessions)

\* the server waits, a session it issued is gone and was never submitted
C19_Witness ==
    /\ req = Idle
    /\ now >= 35 * 60 * 1000
    /\ gameSessions = << >>
    /\ \E id \in DOMAIN accepted : accepted[id] = 0

\* C20: a session is created with used = false; in every step a session that
\* stays in the store and was used is still used; a session that appears is
\* unused and has an id never issued before, so a swept session does not
\* come back.
C20_UsedMonotone ==
    [][ /\ \A id \in DOMAIN gameSessions \cap DOMAIN gameSessions' :
              gameSessions[id].used => gameSessions'[id].used
        /\ \A id \in DOMAIN gameSessions' \ DOMAIN gameSessions :
              /\ ~gameSessions'[id].used
              /\ id \notin DOMAIN accepted ]_vars

\* a tournament score was just accepted for a used session, which stays used
C20_Witness ==
    /\ req.route = "POST /api/tournament/:id/score"
    /\ res.status = 200
    /\ req.session_id \in DOMAIN gameSessions
    /\ gameSessions[req.session_id].used
    /\ Len(tournamentScores) = 1

\* C21: in every step a session that stays in the store keeps its owner and
\* its startedAt (and its id), whichever of session creation, score
\* submission, tournament submission and sweep the step is.
C21_OwnerAndStartFixed ==
    [][ \A id \in DOMAIN gameSessions \cap DOMAIN gameSessions' :
          /\ gameSessions'[id].telegramId = gameSessions[id].telegramId
          /\ gameSessions'[id].startedAt = gameSessions[id].startedAt
          /\ gameSessions'[id].id = gameSessions[id].id ]_vars

\* a score was just accepted for a session started five minutes earlier
C21_Witness ==
    /\ req.route = "POST /api/score"
    /\ res.status = 200
    /\ req.session_id \in DOMAIN gameSessions
    /\ gameSessions[req.session_id].used
    /\ gameSessions[req.session_id].telegramId = req.telegram_id
    /\ gameSessions[req.session_id].startedAt = now - 300000

----------------------------------------------------------------------------
(* Further properties of validateScore, under SpecValidate *)

\* C22 as stated: when the claim carries both frames and duration, a frame
\* count of 0 included, the verdict has frame_mismatch exactly when frames is
\* below 0.3 x or above 2 x the expected (duration / 1000) x 60; when either
\* is missing it has not.
C22_FrameCheckWhenSupplied ==
    ValidatedLive =>
        IF req.body.frames # Undefined /\ req.body.duration # Undefined
        THEN ("frame_mismatch" \in VerdictIssues) <=>
                FrameOutOfRange(req.body.frames, req.body.duration)
        ELSE "frame_mismatch" \notin VerdictIssues

----------------------------------------------------------------------------
(* Further properties of the handlers *)

\* C23 as stated: the coins an accepted POST /api/score credits to a player
\* are at most MAX_COINS_FOR_SCORE(score) = ceil(score x 2) + 100.
C23_CoinsWithinCap ==
    [][ (Submits /\ res'.status = 200) =>
          \A p \in DOMAIN coins :
              coins'[p] - coins[p] <= MAX_COINS_FOR_SCORE(req'.body.score, Undefined) ]_vars

\* this step handles a POST /api/tournament/:id/score
SubmitsTournament == req'.route = "POST /api/tournament/:id/score"

\* the tournament of this step's request exists and is live, the request
\* carries telegram_id and score, and the score is at most 500
TournamentAdmissible ==
    /\ req'.id \in DOMAIN Tournaments
    /\ Tournaments[req'.id].start_time <= now
    /\ now <= Tournaments[req'.id].end_time
    /\ req'.telegram_id \notin {Undefined, 0}
    /\ req'.body.score # Undefined
    /\ req'.body.score <= 500

\* C24: POST /api/tournament/:id/score writes a row only if the tournament
\* exists, start_time <= now <= end_time, telegram_id and score are present
\* and score <= 500; in every other case it answers 404, 400 or 403 and
\* tournament_scores is unchanged.
C24_TournamentGuards ==
    [][ SubmitsTournament =>
          /\ tournamentScores' # tournamentScores => TournamentAdmissible
          /\ ~TournamentAdmissible =>
                /\ res'.status \in {400, 403, 404}
                /\ tournamentScores' = tournamentScores ]_vars

\* a score of 500 was just written at the last instant of the tournament
C24_Witness ==
    /\ req.route = "POST /api/tournament/:id/score"
    /\ res = [status |-> 200, ok |-> TRUE]
    /\ now = Tournaments[req.id].end_time
    /\ Len(tournamentScores) = 1
    /\ tournamentScores[1].score = 500

\* C25 as stated: POST /api/tournament/:id/score writes a row only when
\* session_id names a session in the store owned by the telegram_id of the
\* request.
C25_TournamentNeedsSession ==
    [][ (SubmitsTournament /\ tournamentScores' # tournamentScores) =>
          /\ req'.session_id \in DOMAIN gameSessions
          /\ gameSessions[req'.session_id].telegramId = req'.telegram_id ]_vars

\* C28: a POST /api/score whose telegram_id is not the owner of the session
\* it names is answered 403 'Invalid session' and leaves the store as it
\* was: the session keeps used, owner and startedAt, so the verdict the
\* owner would get for any claim is the one they would have got before.
C28_MismatchLeavesSession ==
    [][ ( /\ Submits
          /\ WellFormed
          /\ NamesSession
          /\ NamedSession.telegramId # req'.telegram_id ) =>
            /\ res' = [status |-> 403, error |-> "Invalid session"]
            /\ gameSessions' = gameSessions
            /\ \A b \in Bodies :
                  validateScore(gameSessions'[req'.session_id], b, now) =
                  validateScore(NamedSession, b, now) ]_vars

\* another player was just turned away from an unused session whose owner
\* can redeem it now
C28_Witness ==
    /\ req.route = "POST /api/score"
    /\ res = [status |-> 403, error |-> "Invalid session"]
    /\ req.session_id \in DOMAIN gameSessions
    /\ gameSessions[req.session_id] =
          [id |-> req.session_id, telegramId |-> 3 - req.telegram_id,
           startedAt |-> 0, used |-> FALSE]
    /\ now = 300000
    /\ validateScore(gameSessions[req.session_id], Body(12, 2, 10, 600, 10000), now).valid
    /\ scores = << >>

\* C29 as stated: a POST /api/score marks a session used only if the same
\* request wrote a row for the session's owner, also when a database call
\* throws and the handler answers 500.
C29_UsedOnlyIfPersisted ==
    [][ ( /\ Submits
          /\ NamesSession
          /\ ~NamedSession.used
          /\ gameSessions'[req'.session_id].used ) =>
            /\ Len(scores') = Len(scores) + 1
            /\ scores'[Len(scores')].telegram_id = NamedSession.telegramId ]_vars

----------------------------------------------------------------------------
(* Properties of the week arithmetic, under SpecWeek *)

\* getWeekStart and getNextMondayUTC have returned in this state
WeekAnswered == req.route = "getWeekStart" /\ res # Idle

\* C27: at every instant getWeekStart returns the date of a Monday, the
\* latest one not after the instant, and getNextMondayUTC returns 00:00 UTC
\* seven days after that date, which is later than the instant and at most
\* seven days away.
C27_WeekBounds ==
    WeekAnswered =>
        /\ res.weekStart % 7 = 0
        /\ res.weekStart * DAY_MS <= now
        /\ now < (res.weekStart + 7) * DAY_MS
        /\ res.nextMonday = (res.weekStart + 7) * DAY_MS
        /\ res.nextMonday > now
        /\ res.nextMonday - now <= 7 * DAY_MS

\* the last millisecond of a Sunday, and the first of a Monday
C27_Witness ==
    /\ WeekAnswered
    /\ now = 14 * DAY_MS - 1
    /\ res = [weekStart |-> 7, nextMonday |-> 14 * DAY_MS]

----------------------------------------------------------------------------
(* Properties of GET /api/leaderboard, under SpecLeaderboard *)

\* C30 as stated: GET /api/leaderboard returns at most 100 entries whatever
\* the limit parameter is (absent, not a number, zero, negative, above 100),
\* and uses the limit 20 when it is absent or not a number.
C30_AtMostHundred ==
    (req.route = "GET /api/leaderboard" /\ res # Idle) =>
        /\ Len(res.entries) <= 100
        /\ parseInt(req.limit).nan => res.limit = 20

----------------------------------------------------------------------------
(* Properties of the archive, under SpecArchive *)

\* C26: an archive file, once written, keeps its content under every later
\* call of archiveWeek, by checkAutoArchive or by POST /api/archive-now; and
\* checkAutoArchive calls archiveWeek only when the reset is more than 0 and
\* at most 30 minutes away and lastArchivedWeek is not the current week.
C26_ArchiveWrittenOnce ==
    [][ /\ \A w \in DOMAIN archives :
              w \in DOMAIN archives' /\ archives'[w] = archives[w]
        /\ (req'.route = "checkAutoArchive" /\ res'.attempted) =>
              /\ getNextMondayUTC(now) - now > 0
              /\ getNextMondayUTC(now) - now <= 30 * 60 * 1000
              /\ lastArchivedWeek # getWeekStart(now) ]_vars

\* POST /api/archive-now found the week's file, written before the last
\* score of the week came in, and left it
C26_Witness ==
    /\ req.route = "POST /api/archive-now"
    /\ res.status = 200
    /\ res.result.kind = "alreadyExists"
    /\ res.result.week \in DOMAIN archives
    /\ Len(archives[res.result.week]) = 1
    /\ Cardinality(WeekPlayers(res.result.week)) = 2

====
